---- MODULE Spec2Model ----
(* Model of docker/rvc/inference.py: the command-line voice conversion      *)
(* pipeline (main, RVCInference.__init__, RVCInference.convert, load_audio, *)
(* save_audio).  One invocation is a sequential program; each action is one *)
(* stage of it.  Files, the loaded network and the libraries are the        *)
(* environment: the files are fixed at Init, the outcomes of library calls  *)
(* are drawn when the call is made.                                         *)
EXTENDS Integers, Sequences, FiniteSets, TLC

VARIABLES fs, st, twin

vars == <<fs, st, twin>>

(* ---------------------------------------------------------------- bounds *)
MaxLen == 2
MaxPitch == 1

(* ------------------------------------------------------------- constants *)
TargetSR == 16000

NativeRates == {8000, 16000, 48000}
IndexPaths == {"absent", "present", "missing"}
InferKinds == {"absent", "present", "raising"}

(* A deserialized artifact.  shape "mapping": a dict, hasModel says whether *)
(* it has the key "model" and modelInfer is the capability of that value.   *)
(* shape "bare": any other object; container says whether the object        *)
(* supports the `in` operator (an nn.Module does not), infer its capability.*)
(* A capability is "absent" (no attribute infer), "present", or "raising"   *)
(* (looking the attribute up raises something other than AttributeError).   *)
Artifacts ==
    [shape : {"mapping"}, hasModel : {TRUE}, modelInfer : InferKinds,
     container : {TRUE}, infer : {"absent"}]
    \cup [shape : {"mapping"}, hasModel : {FALSE}, modelInfer : {"absent"},
          container : {TRUE}, infer : {"absent"}]
    \cup [shape : {"bare"}, hasModel : {FALSE}, modelInfer : {"absent"},
          container : BOOLEAN, infer : InferKinds]

NoArtifact ==
    [shape |-> "none", hasModel |-> FALSE, modelInfer |-> "absent",
     container |-> FALSE, infer |-> "absent"]

NoNet == [origin |-> "none", infer |-> "absent"]

(* A sample sequence: its length, its sample rate and the operations that   *)
(* produced it (the content is the uninterpreted term ops).                 *)
NoAudio == [len |-> 0, rate |-> 0, ops |-> <<>>]

Stages == <<"Idle", "ModelLoading", "Decoding", "Converting",
            "PitchShifting", "Encoding", "Done">>

Rank(stage) ==
    IF stage = "Failed" THEN 8
    ELSE CHOOSE i \in 1..Len(Stages) : Stages[i] = stage

CeilDiv(a, b) == (a + b - 1) \div b

(* ------------------------------------------------------------ audio codec *)
librosa_load(file) ==
    [len |-> file.len, rate |-> file.orig_sr,
     ops |-> <<[op |-> "decode", arg |-> 0]>>]

librosa_resample(audio, orig_sr, target_sr) ==
    [len |-> CeilDiv(audio.len * target_sr, orig_sr), rate |-> target_sr,
     ops |-> Append(audio.ops, [op |-> "resample", arg |-> target_sr])]

load_audio_noresample(file, sr) == librosa_load(file)

load_audio(file, sr) ==
    LET audio == librosa_load(file)
        orig_sr == audio.rate
    IN  IF orig_sr # sr THEN librosa_resample(audio, orig_sr, sr) ELSE audio

pitch_shift_op(audio, sr, n_steps) ==
    [len |-> audio.len, rate |-> sr,
     ops |-> Append(audio.ops, [op |-> "shift", arg |-> n_steps])]

(* The network's output: a new sequence of a length the network chooses;    *)
(* the code performs no rate conversion on it.                              *)
net_infer(audio, outLen) ==
    [len |-> outLen, rate |-> audio.rate,
     ops |-> Append(audio.ops, [op |-> "infer", arg |-> 0])]

(* --------------------------------------------------------- program state *)
InitState(pitch, index) ==
    [pc |-> "Idle", stages |-> <<"Idle">>, failStage |-> "none", exit |-> -1,
     pitch_shift |-> pitch, arg_index |-> index, index_path |-> "unset",
     loaded |-> FALSE, model |-> NoArtifact, net_g |-> NoNet,
     audio |-> NoAudio, converted |-> NoAudio, output_audio |-> NoAudio,
     decodeCalls |-> 0, inferCalls |-> 0, shiftCalls |-> 0, shiftSr |-> 0,
     shiftOutcome |-> "none", saveCalls |-> 0, encoded |-> NoAudio, encodedSr |-> 0,
     event |-> "none", signals |-> {}, reported |-> FALSE]

Goto(s, stage) == [s EXCEPT !.pc = stage, !.stages = Append(@, stage)]

(* sys.exit(1), or an exception that leaves main: the process ends with a   *)
(* non-zero status in the stage s.pc.                                       *)
Fail(s, stage) ==
    [Goto(s, "Failed") EXCEPT !.failStage = stage, !.exit = 1]

(* --------------------------------------------------------------- main() *)
(* Lines 97-103: both paths are checked before anything is loaded.          *)
main_validate_noinput(s) ==
    IF fs.model = "missing" THEN Fail(s, "Validation")
    ELSE Goto(s, "ModelLoading")

main_validate(s) ==
    IF fs.model = "missing" THEN Fail(s, "Validation")
    ELSE IF fs.input = "missing" THEN Fail(s, "Validation")
    ELSE Goto(s, "ModelLoading")

(* ------------------------------------------------ RVCInference.__init__ *)
(* Lines 41-44.  `"model" in self.model` raises TypeError for an object     *)
(* that is neither a container nor iterable.                                *)
ExtractNetwork(artifact) ==
    IF ~artifact.container
    THEN [ok |-> FALSE, net |-> NoNet]
    ELSE IF artifact.hasModel
         THEN [ok |-> TRUE,
               net |-> [origin |-> "field", infer |-> artifact.modelInfer]]
         ELSE [ok |-> TRUE,
               net |-> [origin |-> "artifact", infer |-> artifact.infer]]

RVCInference_init_readsindex(s) ==
    LET s1 == [s EXCEPT !.index_path = s.arg_index]
    IN  IF fs.model # "ok" \/ s.arg_index = "missing"
        THEN Fail(s1, "ModelLoading")
        ELSE LET s2 == [s1 EXCEPT !.model = fs.artifact, !.loaded = TRUE]
                 x == ExtractNetwork(s2.model)
             IN  IF x.ok THEN Goto([s2 EXCEPT !.net_g = x.net], "Decoding")
                 ELSE Fail(s2, "ModelLoading")

RVCInference_init(s) ==
    LET s1 == [s EXCEPT !.index_path = s.arg_index]
    IN  IF fs.model # "ok"
        THEN Fail(s1, "ModelLoading")
        ELSE LET s2 == [s1 EXCEPT !.model = fs.artifact, !.loaded = TRUE]
                 x == ExtractNetwork(s2.model)
             IN  IF x.ok THEN Goto([s2 EXCEPT !.net_g = x.net], "Decoding")
                 ELSE Fail(s2, "ModelLoading")

(* ------------------------------------------------- RVCInference.convert *)
(* Line 53. *)
convert_load_continue(s) ==
    LET s1 == [s EXCEPT !.decodeCalls = @ + 1]
    IN  IF fs.input # "ok"
        THEN Goto(s1, "Converting")
        ELSE Goto([s1 EXCEPT !.audio = load_audio(fs, TargetSR)], "Converting")

convert_load(s) ==
    LET s1 == [s EXCEPT !.decodeCalls = @ + 1]
    IN  IF fs.input # "ok"
        THEN Fail(s1, "Decoding")
        ELSE Goto([s1 EXCEPT !.audio = load_audio(fs, TargetSR)], "Converting")

(* Lines 61-72: the try block and its handler. *)
ConvertTry_silent(net_g, audio, e) ==
    IF net_g.infer = "raising"
    THEN [out |-> audio, inferCalls |-> 0, event |-> "probe_raised",
          signals |-> {"ConversionFailure"}]
    ELSE IF net_g.infer = "present"
    THEN IF e.inferRaises
         THEN [out |-> audio, inferCalls |-> 1, event |-> "infer_raised",
               signals |-> {}]
         ELSE IF e.extractRaises
         THEN [out |-> audio, inferCalls |-> 1, event |-> "extract_raised",
               signals |-> {}]
         ELSE [out |-> net_infer(audio, e.outLen), inferCalls |-> 1,
               event |-> "converted", signals |-> {}]
    ELSE [out |-> audio, inferCalls |-> 0, event |-> "no_infer",
          signals |-> {"PassthroughWarning"}]

ConvertTry(net_g, audio, e) ==
    IF net_g.infer = "raising"
    THEN [out |-> audio, inferCalls |-> 0, event |-> "probe_raised",
          signals |-> {"ConversionFailure"}]
    ELSE IF net_g.infer = "present"
    THEN IF e.inferRaises
         THEN [out |-> audio, inferCalls |-> 1, event |-> "infer_raised",
               signals |-> {"ConversionFailure"}]
         ELSE IF e.extractRaises
         THEN [out |-> audio, inferCalls |-> 1, event |-> "extract_raised",
               signals |-> {"ConversionFailure"}]
         ELSE [out |-> net_infer(audio, e.outLen), inferCalls |-> 1,
               event |-> "converted", signals |-> {}]
    ELSE [out |-> audio, inferCalls |-> 0, event |-> "no_infer",
          signals |-> {"PassthroughWarning"}]

(* Line 75. *)
pitch_requested_positive(pitch_shift) == pitch_shift > 0

pitch_requested_always(pitch_shift) == TRUE

pitch_requested(pitch_shift) == pitch_shift # 0

(* Lines 57-72.  The tensor is bound to the device on line 58, before the   *)
(* try block is entered on line 61.                                         *)
convert_infer(s, e) ==
    IF e.bindRaises
    THEN Fail([s EXCEPT !.event = "bind_raised"], "Converting")
    ELSE LET r == ConvertTry(s.net_g, s.audio, e)
             s1 == [s EXCEPT !.converted = r.out, !.output_audio = r.out,
                             !.inferCalls = @ + r.inferCalls,
                             !.event = r.event,
                             !.signals = @ \cup r.signals]
         IN  IF pitch_requested(s.pitch_shift)
             THEN Goto(s1, "PitchShifting")
             ELSE Goto(s1, "Encoding")

(* Lines 76-78. *)
convert_pitch(s, e) ==
    LET s1 == [s EXCEPT !.shiftCalls = @ + 1, !.shiftSr = TargetSR,
                        !.shiftOutcome = IF e.shiftRaises THEN "raised"
                                         ELSE "returned"]
    IN  IF e.shiftRaises
        THEN Fail(s1, "PitchShifting")
        ELSE Goto([s1 EXCEPT !.output_audio =
                       pitch_shift_op(s.output_audio, TargetSR, s.pitch_shift)],
                  "Encoding")

(* Lines 81-84 and 109: sf.write, then the path is reported and main ends.  *)
convert_save(s) ==
    LET s1 == [s EXCEPT !.saveCalls = @ + 1, !.encoded = s.output_audio,
                        !.encodedSr = TargetSR]
    IN  IF ~fs.outputWritable
        THEN Fail(s1, "Encoding")
        ELSE Goto([s1 EXCEPT !.reported = TRUE, !.exit = 0], "Done")

(* ---------------------------------------------------------- environment *)
ConvertEnv ==
    [bindRaises : BOOLEAN, inferRaises : BOOLEAN, extractRaises : BOOLEAN,
     outLen : 0..MaxLen]

PitchEnv == [shiftRaises : BOOLEAN]

Files ==
    [model : {"missing"}, artifact : {NoArtifact},
     input : {"missing", "unreadable", "ok"}, orig_sr : NativeRates,
     len : 0..MaxLen, outputWritable : BOOLEAN]
    \cup [model : {"corrupt"}, artifact : {NoArtifact},
          input : {"missing", "unreadable", "ok"}, orig_sr : NativeRates,
          len : 0..MaxLen, outputWritable : BOOLEAN]
    \cup [model : {"ok"}, artifact : Artifacts,
          input : {"missing", "unreadable", "ok"}, orig_sr : NativeRates,
          len : 0..MaxLen, outputWritable : BOOLEAN]

(* ---------------------------------------------------------------- system *)
(* twin is a second invocation with the same arguments except the index     *)
(* path, run on the same files and given the same library outcomes.         *)
Init ==
    /\ fs \in Files
    /\ \E pitch \in -MaxPitch..MaxPitch, index \in IndexPaths,
          index2 \in IndexPaths :
          /\ st = InitState(pitch, index)
          /\ twin = InitState(pitch, index2)

Validate ==
    /\ st.pc = "Idle"
    /\ st' = main_validate(st)
    /\ twin' = IF twin.pc = "Idle" THEN main_validate(twin) ELSE twin
    /\ UNCHANGED fs

LoadModel ==
    /\ st.pc = "ModelLoading"
    /\ st' = RVCInference_init(st)
    /\ twin' = IF twin.pc = "ModelLoading" THEN RVCInference_init(twin)
               ELSE twin
    /\ UNCHANGED fs

Decode ==
    /\ st.pc = "Decoding"
    /\ st' = convert_load(st)
    /\ twin' = IF twin.pc = "Decoding" THEN convert_load(twin) ELSE twin
    /\ UNCHANGED fs

Convert ==
    /\ st.pc = "Converting"
    /\ \E e \in ConvertEnv :
          /\ st' = convert_infer(st, e)
          /\ twin' = IF twin.pc = "Converting" THEN convert_infer(twin, e)
                     ELSE twin
    /\ UNCHANGED fs

PitchShift ==
    /\ st.pc = "PitchShifting"
    /\ \E e \in PitchEnv :
          /\ st' = convert_pitch(st, e)
          /\ twin' = IF twin.pc = "PitchShifting" THEN convert_pitch(twin, e)
                     ELSE twin
    /\ UNCHANGED fs

Encode ==
    /\ st.pc = "Encoding"
    /\ st' = convert_save(st)
    /\ twin' = IF twin.pc = "Encoding" THEN convert_save(twin) ELSE twin
    /\ UNCHANGED fs

Next ==
    \/ Validate
    \/ LoadModel
    \/ Decode
    \/ Convert
    \/ PitchShift
    \/ Encode

Spec == Init /\ [][Next]_vars

Terminal(s) == s.pc \in {"Done", "Failed"}

Past(s, stage) ==
    /\ \E i \in 1..Len(s.stages) : s.stages[i] = stage
    /\ s.pc # stage

(* Every stage returns or raises; the program is sequential. *)
FairSpec == Spec /\ WF_vars(Next)

Has(s, stage) == \E i \in 1..Len(s.stages) : s.stages[i] = stage

(* ----------------------------------------------------------------- C1 -- *)
(* C1: the Converting step never raises to its caller: the pipeline never   *)
(* ends in Failed at the Converting stage.                                  *)
C1_ConvertingNeverFails ==
    ~(st.pc = "Failed" /\ st.failStage = "Converting")

(* ----------------------------------------------------------------- C2 -- *)
(* C2: once the artifact is loaded, network extraction does not fail: the   *)
(* run does not end in ModelLoading, and net_g is the "model" field of a    *)
(* mapping that has one and the artifact itself for every other shape.      *)
C2_ExtractionNeverFails ==
    st.loaded =>
        /\ st.failStage # "ModelLoading"
        /\ Has(st, "Decoding")
        /\ st.net_g.origin =
              IF st.model.shape = "mapping" /\ st.model.hasModel
              THEN "field" ELSE "artifact"

(* ----------------------------------------------------------------- C3 -- *)
InferRaised(s) == s.event \in {"infer_raised", "extract_raised"}

C3_Degrades ==
    InferRaised(st) =>
        /\ st.converted = st.audio
        /\ "ConversionFailure" \in st.signals
        /\ st.failStage # "Converting"
        /\ (st.pitch_shift = 0 /\ fs.outputWritable) =>
              /\ st.pc \in {"Encoding", "Done"}
              /\ st.pc = "Done" =>
                    /\ st.encoded = st.audio
                    /\ st.exit = 0

(* C3: if inference or the extraction of its output raises, the Converting  *)
(* step yields the decoded samples unchanged and signals ConversionFailure; *)
(* with pitch shift 0 and a writable destination the run then reaches Done  *)
(* with the encoded samples equal to the decoded input and exit status 0.   *)
C3_InferRaiseReachesDone ==
    /\ []C3_Degrades
    /\ (InferRaised(st) /\ st.pitch_shift = 0 /\ fs.outputWritable)
          ~> (st.pc = "Done")

C3_Witness ==
    /\ st.event = "infer_raised"
    /\ st.pitch_shift = 0
    /\ st.pc = "Done"
    /\ st.audio.len > 0
    /\ st.encoded = st.audio
    /\ st.exit = 0

(* ----------------------------------------------------------------- C4 -- *)
(* C4: when the network has no infer operation, the Converting step does    *)
(* not call inference, yields the decoded samples unchanged and emits the   *)
(* passthrough warning; with pitch shift 0 (and a writable destination) the *)
(* encoded output is the decoded input and the exit status is 0.  The       *)
(* warning is emitted only in this case.                                    *)
C4_NoInferPassthrough ==
    /\ (st.net_g.infer = "absent" /\ Past(st, "Converting")) =>
          /\ st.inferCalls = 0
          /\ st.converted = st.audio
          /\ "PassthroughWarning" \in st.signals
          /\ (st.pitch_shift = 0 /\ fs.outputWritable /\ Terminal(st)) =>
                /\ st.pc = "Done"
                /\ st.encoded = st.audio
                /\ st.exit = 0
    /\ ("PassthroughWarning" \in st.signals) =>
          /\ st.net_g.infer = "absent"
          /\ st.net_g.origin # "none"

(* ----------------------------------------------------------------- C5 -- *)
HardFailStages == {"Validation", "ModelLoading", "Decoding", "PitchShifting"}

(* C5: the encoder is invoked at most once and only after model loading,    *)
(* decoding, converting and (when requested) pitch shifting have completed; *)
(* a missing or unparseable model, an unreadable input or a raising shifter *)
(* ends the run with a non-zero status, no encoder call and no Done.        *)
C5_HardFailuresAbort ==
    /\ st.saveCalls <= 1
    /\ st.saveCalls = 1 =>
          /\ st.loaded
          /\ st.decodeCalls = 1
          /\ Past(st, "ModelLoading")
          /\ Past(st, "Decoding")
          /\ Past(st, "Converting")
          /\ st.pitch_shift # 0 =>
                /\ Past(st, "PitchShifting")
                /\ st.shiftOutcome = "returned"
    /\ (\/ fs.model # "ok"
        \/ fs.input # "ok"
        \/ st.shiftOutcome = "raised"
        \/ st.failStage \in HardFailStages) =>
          /\ st.saveCalls = 0
          /\ st.pc # "Done"
          /\ ~st.reported
          /\ st.exit # 0
    /\ (st.shiftOutcome = "raised" \/ st.failStage \in HardFailStages) =>
          /\ st.pc = "Failed"
          /\ st.exit = 1

C5_Witness ==
    /\ st.pc = "Failed"
    /\ st.failStage = "PitchShifting"
    /\ st.pitch_shift # 0
    /\ st.shiftOutcome = "raised"
    /\ st.saveCalls = 0
    /\ fs.outputWritable

(* ----------------------------------------------------------------- C6 -- *)
(* C6: with a missing input file and a valid model, the run fails at the    *)
(* Decoding stage, after ModelLoading has completed, with a non-zero exit   *)
(* and no output file.                                                      *)
C6_MissingInputFailsAtDecoding ==
    (fs.input = "missing" /\ fs.model = "ok" /\ Terminal(st)) =>
        /\ st.pc = "Failed"
        /\ st.failStage = "Decoding"
        /\ st.loaded
        /\ st.exit # 0
        /\ st.saveCalls = 0

(* C6 as amended: with a missing input file and an existing model file, the *)
(* run fails in main's path validation, before ModelLoading begins: the     *)
(* model is never loaded, the decoder is never called, the exit status is   *)
(* non-zero and there is no output file.                                    *)
C6_MissingInputFailsAtValidation ==
    (fs.input = "missing" /\ fs.model # "missing") =>
        /\ st.pc \in {"Idle", "Failed"}
        /\ ~st.loaded
        /\ st.decodeCalls = 0
        /\ st.saveCalls = 0
        /\ st.pc = "Failed" =>
              /\ st.failStage = "Validation"
              /\ st.stages = <<"Idle", "Failed">>
              /\ st.exit = 1

C6_Witness ==
    /\ fs.input = "missing"
    /\ fs.model = "ok"
    /\ st.pc = "Failed"
    /\ st.failStage = "Validation"
    /\ st.exit = 1

(* ----------------------------------------------------------------- C7 -- *)
StepAllowed(s, a, b) ==
    \/ b = "Failed"
    \/ Rank(b) = Rank(a) + 1 /\ a # "Converting" /\ a # "Failed"
    \/ a = "Converting" /\ b = "PitchShifting" /\ s.pitch_shift # 0
    \/ a = "Converting" /\ b = "Encoding" /\ s.pitch_shift = 0

(* C7: the stages are entered in the order Idle, ModelLoading, Decoding,    *)
(* Converting, PitchShifting (only when semitones # 0), Encoding, Done,     *)
(* each at most once, one at a time; Done comes only after a successful     *)
(* encode and reports the output path.                                      *)
C7_StagesInOrder ==
    /\ st.stages[1] = "Idle"
    /\ st.pc = st.stages[Len(st.stages)]
    /\ \A i, j \in 1..Len(st.stages) :
          i < j => Rank(st.stages[i]) < Rank(st.stages[j])
    /\ \A i \in 1..(Len(st.stages) - 1) :
          /\ st.stages[i] # "Failed"
          /\ StepAllowed(st, st.stages[i], st.stages[i + 1])
    /\ Has(st, "PitchShifting") => st.pitch_shift # 0
    /\ st.pc = "Done" =>
          /\ st.stages[Len(st.stages) - 1] = "Encoding"
          /\ st.saveCalls = 1
          /\ fs.outputWritable
          /\ st.reported
    /\ st.reported => st.pc = "Done"

C7_Witness ==
    /\ st.pc = "Done"
    /\ st.pitch_shift # 0
    /\ st.stages = <<"Idle", "ModelLoading", "Decoding", "Converting",
                     "PitchShifting", "Encoding", "Done">>

(* ----------------------------------------------------------------- C8 -- *)
AtTargetRate(a) == a = NoAudio \/ a.rate = TargetSR

Resampled(a) == \E i \in 1..Len(a.ops) : a.ops[i].op = "resample"

C9_PitchShiftStage ==
    /\ st.pitch_shift = 0 =>
          /\ st.shiftCalls = 0
          /\ st.failStage # "PitchShifting"
          /\ Past(st, "Converting") /\ st.failStage # "Converting" =>
                st.output_audio = st.converted
          /\ st.saveCalls = 1 => st.encoded = st.converted
    /\ st.pitch_shift # 0 =>
          /\ st.shiftCalls <= 1
          /\ st.pc \in {"Encoding", "Done"} \/ st.saveCalls = 1 =>
                /\ st.shiftCalls = 1
                /\ st.output_audio =
                      pitch_shift_op(st.converted, 16000, st.pitch_shift)
          /\ st.saveCalls = 1 =>
                st.encoded = pitch_shift_op(st.converted, 16000, st.pitch_shift)

C9_Witness ==
    /\ st.pitch_shift = 0
    /\ st.pc = "Done"
    /\ st.audio.len = 0
    /\ st.event = "no_infer"
    /\ st.shiftCalls = 0
    /\ st.encoded = st.converted

(* ---------------------------------------------------------------- C10 -- *)
Obs(s) == [s EXCEPT !.arg_index = "hidden", !.index_path = "hidden"]

(* C10: two invocations that differ only in the index path agree on the     *)
(* stages, the signals, the outcome and the encoded samples at every step;  *)
(* the path is stored by the constructor and nothing else depends on it.    *)
C10_IndexPathIsNoOp ==
    /\ Obs(st) = Obs(twin)
    /\ st.index_path \in {"unset", st.arg_index}
    /\ Has(st, "ModelLoading") /\ st.pc # "ModelLoading" =>
          st.index_path = st.arg_index

C10_Witness ==
    /\ st.pc = "Done"
    /\ st.arg_index = "missing"
    /\ twin.arg_index = "absent"
    /\ st.index_path = "missing"
    /\ twin.pc = "Done"
    /\ st.encoded = twin.encoded

====
